---- MODULE Spec2Model ----
(***************************************************************************)
(* A model of idb/analysis.py, the decoding layer of python-idb: the       *)
(* packed-integer codec, the field-analysis framework (_Analysis), func_t, *)
(* the Function detail object and the cross-reference helpers.             *)
(*                                                                         *)
(* Byte buffers are sequences of 0..255.  Python indexes from 0, TLA+ from *)
(* 1: At(buf, i) is buf[i].  An exception is a record [err |-> <name>].    *)
(***************************************************************************)
EXTENDS Integers, Sequences, FiniteSets, TLC

VARIABLES
    idb,     \* the database handle: wordsize, segments, the netnode store
    self,    \* the object under test: an analyzer (nodeid, fields) or a Function (nodeid)
    buf,     \* the byte buffer handed to the codec / to func_t
    pc,      \* position of the running generator: "ready", "running", "done", "raised"
    loc,     \* the running generator's local variables
    out,     \* the values the running generator has yielded so far
    ret      \* the outcome of the last completed call

vars == <<idb, self, buf, pc, loc, out, ret>>

\* An attribute that may be absent: None, or Some(v).
None == <<>>

Some(v) == <<v>>

\* Before any call has completed.
NoRet == [fn |-> "none"]

NoLoc == [fn |-> "none"]

NoSelf == [cls |-> "none"]

(***************************************************************************)
(* Python primitives.                                                      *)
(***************************************************************************)

\* x & y on non-negative integers.
RECURSIVE And(_, _)
And(x, y) ==
    IF x = 0 \/ y = 0 THEN 0
    ELSE (x % 2) * (y % 2) + 2 * And(x \div 2, y \div 2)

\* x << n and x >> n on non-negative integers.
Shl(x, n) == x * (2 ^ n)

Shr(x, n) == x \div (2 ^ n)

\* buf[i] exists / buf[i] / buf[offset:]
Has(b, i) == i < Len(b)

At(b, i) == b[i + 1]

Slice(b, offset) == IF offset >= Len(b) THEN <<>> ELSE SubSeq(b, offset + 1, Len(b))

IndexError == [err |-> "IndexError"]

Ok(v, n) == [err |-> "none", val |-> v, size |-> n]

\* is_flag_set(flags, flag)
is_flag_set(flags, flag) == And(flags, flag) = flag

(***************************************************************************)
(* The packed-integer codec.  A dd value reaches 2^32 - 1, beyond TLC's    *)
(* integers, so unpack_dd keeps the value (hi << 16) + low as the pair of  *)
(* its 16-bit halves <<hi, low>>; IntOf joins them where the value is      *)
(* small enough.                                                           *)
(***************************************************************************)

V32(hi, low) == <<hi, low>>

IntOf(v) == Shl(v[1], 16) + v[2]

unpack_dd_wide_mask(b0, offset) ==
    LET b == IF offset # 0 THEN Slice(b0, offset) ELSE b0 IN
    IF ~Has(b, 0) THEN IndexError
    ELSE LET header == At(b, 0) IN
         IF And(header, 128) = 0 THEN Ok(V32(0, header), 1)
         ELSE IF And(header, 192) # 192 THEN
             IF ~Has(b, 1) THEN IndexError
             ELSE Ok(V32(0, Shl(And(header, 127), 8) + At(b, 1)), 2)
         ELSE IF And(header, 224) = 224 THEN
             IF ~Has(b, 4) THEN IndexError
             ELSE Ok(V32(Shl(At(b, 1), 8) + At(b, 2),
                         Shl(At(b, 3), 8) + At(b, 4)), 5)
         ELSE
             IF ~Has(b, 3) THEN IndexError
             ELSE Ok(V32(Shl(And(header, 127), 8) + At(b, 1),
                         Shl(At(b, 2), 8) + At(b, 3)), 4)

unpack_dd(b0, offset) ==
    LET b == IF offset # 0 THEN Slice(b0, offset) ELSE b0 IN
    IF ~Has(b, 0) THEN IndexError
    ELSE LET header == At(b, 0) IN
         IF And(header, 128) = 0 THEN Ok(V32(0, header), 1)
         ELSE IF And(header, 192) # 192 THEN
             IF ~Has(b, 1) THEN IndexError
             ELSE Ok(V32(0, Shl(And(header, 127), 8) + At(b, 1)), 2)
         ELSE IF And(header, 224) = 224 THEN
             IF ~Has(b, 4) THEN IndexError
             ELSE Ok(V32(Shl(At(b, 1), 8) + At(b, 2),
                         Shl(At(b, 3), 8) + At(b, 4)), 5)
         ELSE
             IF ~Has(b, 3) THEN IndexError
             ELSE Ok(V32(Shl(And(header, 63), 8) + At(b, 1),
                         Shl(At(b, 2), 8) + At(b, 3)), 4)

unpack_dw(b0, offset) ==
    LET b == IF offset # 0 THEN Slice(b0, offset) ELSE b0 IN
    IF ~Has(b, 0) THEN IndexError
    ELSE LET header == At(b, 0) IN
         IF And(header, 128) = 0 THEN Ok(header, 1)
         ELSE IF And(header, 192) # 192 THEN
             IF ~Has(b, 1) THEN IndexError
             ELSE Ok(And(Shl(header, 8) + At(b, 1), 32767), 2)
         ELSE
             IF ~Has(b, 2) THEN IndexError
             ELSE Ok(Shl(At(b, 1), 8) + At(b, 2), 3)

\* dw1 << 32 where dw1 is the (value, size) tuple unpack_dd returned: Python
\* defines no << between a tuple and an int.
lshift_tuple(dw1, n) == [err |-> "TypeError"]

\* return (dw1 << 32) + dw2
unpack_dq_combine(dw1, dw2) ==
    IF dw1.err # "none" THEN dw1
    ELSE IF dw2.err # "none" THEN dw2
    ELSE lshift_tuple(dw1, 32)

unpack_dq(b0, offset) ==
    LET b == IF offset # 0 THEN Slice(b0, offset) ELSE b0 IN
    unpack_dq_combine(unpack_dd(b, 0), unpack_dd(b, 4))

(***************************************************************************)
(* Buffers of the codec specification: up to MaxPad bytes, then a header   *)
(* byte of every class, then up to MaxTail further bytes.                  *)
(***************************************************************************)

MaxPad == 1

MaxTail == 4

RECURSIVE SeqsUpTo(_, _)
SeqsUpTo(S, n) ==
    IF n = 0 THEN {<<>>}
    ELSE LET shorter == SeqsUpTo(S, n - 1) IN
         shorter \cup {Append(s, x) : s \in shorter, x \in S}

PadBytes == {0, 224}

HeaderBytes == {0, 127, 128, 191, 192, 223, 224, 255}

TailBytes == {18, 255}

CodecBufs ==
    {p \o <<h>> \o t : p \in SeqsUpTo(PadBytes, MaxPad), h \in HeaderBytes,
                       t \in SeqsUpTo(TailBytes, MaxTail)}

NoDb == [wordsize |-> 0]

InitCodec ==
    /\ buf \in CodecBufs
    /\ idb = NoDb
    /\ self = NoSelf
    /\ pc = "codec"
    /\ loc = NoLoc
    /\ out = <<>>
    /\ ret = NoRet

Call_unpack_dd ==
    /\ pc = "codec"
    /\ \E offset \in 0..Len(buf) :
           ret' = [fn |-> "unpack_dd", offset |-> offset, r |-> unpack_dd(buf, offset)]
    /\ UNCHANGED <<idb, self, buf, pc, loc, out>>

Call_unpack_dw ==
    /\ pc = "codec"
    /\ \E offset \in 0..Len(buf) :
           ret' = [fn |-> "unpack_dw", offset |-> offset, r |-> unpack_dw(buf, offset)]
    /\ UNCHANGED <<idb, self, buf, pc, loc, out>>

Call_unpack_dq ==
    /\ pc = "codec"
    /\ \E offset \in 0..Len(buf) :
           ret' = [fn |-> "unpack_dq", offset |-> offset, r |-> unpack_dq(buf, offset)]
    /\ UNCHANGED <<idb, self, buf, pc, loc, out>>

NextCodec == Call_unpack_dd \/ Call_unpack_dw \/ Call_unpack_dq

SpecCodec == InitCodec /\ [][NextCodec]_vars

(***************************************************************************)
(* C6: unpack_dd on a complete encoding: the bytes consumed are fixed by   *)
(* the leading byte's top bits (0xxxxxxx 1, 10xxxxxx 2, 110xxxxx 4,        *)
(* 111xxxxx 5), the value is the documented combination of the bytes for   *)
(* that width, and the value lies in 0 .. 2^32 - 1 (both halves in         *)
(* 0 .. 0xFFFF), 1-byte values in 0..0x7F and 2-byte values in 0..0x3FFF.  *)
(***************************************************************************)

WidthOf(header) ==
    IF header < 128 THEN 1
    ELSE IF header < 192 THEN 2
    ELSE IF header < 224 THEN 4
    ELSE 5

\* The documented value of the encoding that starts at b[0], as <<hi, low>>.
DocumentedDd(b) ==
    LET h == At(b, 0) IN
    CASE WidthOf(h) = 1 -> <<0, h>>
      [] WidthOf(h) = 2 -> <<0, (h - 128) * 256 + At(b, 1)>>
      [] WidthOf(h) = 4 -> <<(h - 192) * 256 + At(b, 1), At(b, 2) * 256 + At(b, 3)>>
      [] WidthOf(h) = 5 -> <<At(b, 1) * 256 + At(b, 2), At(b, 3) * 256 + At(b, 4)>>

CompleteDdAt(b, offset) ==
    /\ offset < Len(b)
    /\ offset + WidthOf(At(b, offset)) <= Len(b)

C6_UnpackDd ==
    (ret.fn = "unpack_dd" /\ CompleteDdAt(buf, ret.offset)) =>
        LET b == Slice(buf, ret.offset)
            w == WidthOf(At(b, 0))
        IN  /\ ret.r.err = "none"
            /\ ret.r.size = w
            /\ ret.r.val = DocumentedDd(b)
            /\ ret.r.val[1] \in 0..65535
            /\ ret.r.val[2] \in 0..65535
            /\ (w = 1 => ret.r.val[1] = 0 /\ ret.r.val[2] \in 0..127)
            /\ (w = 2 => ret.r.val[1] = 0 /\ ret.r.val[2] \in 0..16383)

\* A 4-byte encoding decoded at a non-zero offset, with its top value bits set.
C6_Witness ==
    /\ ret.fn = "unpack_dd"
    /\ ret.offset > 0
    /\ CompleteDdAt(buf, ret.offset)
    /\ ret.r.err = "none"
    /\ ret.r.size = 4
    /\ ret.r.val[1] > 255

(***************************************************************************)
(* unpack_dds, a generator.  Its frame is [started, offset, size]: the     *)
(* generator is suspended at the yield, where offset is still the offset   *)
(* of the value just yielded; resuming it runs offset += size first.       *)
(***************************************************************************)

dds_frame == [started |-> FALSE, offset |-> 0, size |-> 0]

\* val, size = unpack_dd(buf, offset=offset); yield val
dds_yield(g, offset, r) ==
    IF r.err # "none" THEN [g |-> g, kind |-> "raise", err |-> r.err]
    ELSE [g |-> [started |-> TRUE, offset |-> offset, size |-> r.size],
          kind |-> "yield", val |-> IntOf(r.val)]

\* while offset < len(buf): ...
dds_loop(b, g, offset) ==
    IF offset < Len(b) THEN dds_yield(g, offset, unpack_dd(b, offset))
    ELSE [g |-> [started |-> TRUE, offset |-> offset, size |-> 0], kind |-> "stop"]

dds_next_no_advance(b, g) == dds_loop(b, g, IF g.started THEN g.offset ELSE 0)

\* One next() on the generator over b: the frame it leaves and what it did.
dds_next(b, g) == dds_loop(b, g, IF g.started THEN g.offset + g.size ELSE 0)

\* Buffers of the generator specifications: up to MaxDds complete encodings,
\* one of each width, then possibly the start of a further, cut encoding.
MaxDds == 3

DdEncodings ==
    {<<5>>, <<129, 0>>, <<192, 1, 0, 5>>, <<224, 127, 255, 255, 255>>}

CutEncodings == {<<>>, <<128>>, <<192, 1>>, <<224, 0, 64, 16>>}

RECURSIVE Concat(_)
Concat(ss) == IF ss = <<>> THEN <<>> ELSE Head(ss) \o Concat(Tail(ss))

DdsBufs ==
    {Concat(es) \o c : es \in SeqsUpTo(DdEncodings, MaxDds), c \in CutEncodings}

InitDds ==
    /\ buf \in DdsBufs
    /\ idb = NoDb
    /\ self = NoSelf
    /\ pc = "suspended"
    /\ loc = [fn |-> "unpack_dds", g |-> dds_frame]
    /\ out = <<>>
    /\ ret = NoRet

Next_unpack_dds ==
    /\ pc = "suspended"
    /\ loc.fn = "unpack_dds"
    /\ LET n == dds_next(buf, loc.g) IN
       /\ loc' = [loc EXCEPT !.g = n.g]
       /\ pc' = CASE n.kind = "yield" -> "suspended"
                  [] n.kind = "stop" -> "done"
                  [] n.kind = "raise" -> "raised"
       /\ out' = IF n.kind = "yield" THEN Append(out, n.val) ELSE out
       /\ ret' = IF n.kind = "raise" THEN [fn |-> "unpack_dds", err |-> n.err] ELSE ret
    /\ UNCHANGED <<idb, self, buf>>

NextDds == Next_unpack_dds

SpecDds == InitDds /\ [][NextDds]_vars

\* list(unpack_dds(buf)): the consumer keeps asking until the generator ends.
SpecDdsFair == SpecDds /\ WF_vars(NextDds)

(***************************************************************************)
(* C7: on a buffer that is a concatenation of complete dd encodings,       *)
(* unpack_dds yields the value of each encoding in order, its offset       *)
(* strictly increases at every step, it ends with the offset at the buffer *)
(* end (the sizes consumed sum to the buffer length), and it does end.     *)
(***************************************************************************)

\* b is a concatenation of complete encodings; their widths; their values.
RECURSIVE IsDdConcat(_)
IsDdConcat(b) ==
    \/ b = <<>>
    \/ /\ CompleteDdAt(b, 0)
       /\ IsDdConcat(Slice(b, WidthOf(At(b, 0))))

RECURSIVE DocumentedDds(_)
DocumentedDds(b) ==
    IF b = <<>> THEN <<>>
    ELSE LET d == DocumentedDd(b) IN
         <<d[1] * 65536 + d[2]>> \o DocumentedDds(Slice(b, WidthOf(At(b, 0))))

RECURSIVE DocumentedWidths(_)
DocumentedWidths(b) ==
    IF b = <<>> THEN <<>>
    ELSE <<WidthOf(At(b, 0))>> \o DocumentedWidths(Slice(b, WidthOf(At(b, 0))))

RECURSIVE SumSeq(_)
SumSeq(s) == IF s = <<>> THEN 0 ELSE Head(s) + SumSeq(Tail(s))

C7_DdsState ==
    (loc.fn = "unpack_dds" /\ IsDdConcat(buf)) =>
        /\ pc # "raised"
        /\ Len(out) <= Len(DocumentedDds(buf))
        /\ out = SubSeq(DocumentedDds(buf), 1, Len(out))
        /\ loc.g.offset + loc.g.size = SumSeq(SubSeq(DocumentedWidths(buf), 1, Len(out)))
        /\ (pc = "done" => /\ out = DocumentedDds(buf)
                           /\ loc.g.offset = Len(buf))

C7_DdsStep ==
    (loc.fn = "unpack_dds" /\ IsDdConcat(buf) /\ loc.g.started /\ loc' # loc) =>
        loc'.g.offset > loc.g.offset

C7_UnpackDds ==
    /\ []C7_DdsState
    /\ [][C7_DdsStep]_vars
    /\ (IsDdConcat(buf) => <>(pc = "done"))

\* Three encodings of different widths decoded to the end of the buffer.
C7_Witness ==
    /\ loc.fn = "unpack_dds"
    /\ IsDdConcat(buf)
    /\ pc = "done"
    /\ Len(out) = 3
    /\ Len(buf) > 6
    /\ out[1] # out[2]

(***************************************************************************)
(* The netnode store (idb.netnode, a sibling component): idb.sup is the    *)
(* set of sup entries [nodeid, tag, index, value].                         *)
(***************************************************************************)

KeyError == [err |-> "KeyError"]

\* Netnode.supval(index, tag): the value stored at (nodeid, tag, index).
supval(db, nodeid, index, tag) ==
    LET hit == {e \in db.sup : e.nodeid = nodeid /\ e.tag = tag /\ e.index = index} IN
    IF hit = {} THEN KeyError
    ELSE [err |-> "none", val |-> (CHOOSE e \in hit : TRUE).value]

\* Netnode.supentries(tag): every entry stored under (nodeid, tag).
supentries(db, nodeid, tag) == {e \in db.sup : e.nodeid = nodeid /\ e.tag = tag}

(***************************************************************************)
(* chunks(l, n) over a generator l (here always unpack_dds over v), and    *)
(* pairs(l) = chunks(l, 2).                                                *)
(***************************************************************************)

\* list(itertools.islice(l, n)): the values pulled, the frame l is left in.
RECURSIVE islice(_, _, _)
islice_cons(x, rest) == [g |-> rest.g, vals |-> <<x.val>> \o rest.vals, err |-> rest.err]

islice_take(v, n, x) ==
    CASE x.kind = "raise" -> [g |-> x.g, vals |-> <<>>, err |-> x.err]
      [] x.kind = "stop" -> [g |-> x.g, vals |-> <<>>, err |-> "none"]
      [] x.kind = "yield" -> islice_cons(x, islice(v, x.g, n - 1))

islice(v, g, n) ==
    IF n = 0 THEN [g |-> g, vals |-> <<>>, err |-> "none"]
    ELSE islice_take(v, n, dds_next(v, g))

\* v = list(itertools.islice(l, n)); if not v: return; yield v
chunks_group(s) ==
    IF s.err # "none" THEN [g |-> s.g, kind |-> "raise", err |-> s.err]
    ELSE IF s.vals = <<>> THEN [g |-> s.g, kind |-> "stop"]
    ELSE [g |-> s.g, kind |-> "yield", val |-> s.vals]

\* One next() on chunks(unpack_dds(v), n).
chunks_next(v, g, n) == chunks_group(islice(v, g, n))

pairs_next(v, g) == chunks_next(v, g, 2)

(***************************************************************************)
(* Function.get_chunks and Function.get_stack_change_points, generators.   *)
(* A frame is suspended at its yield; resuming runs the statements after   *)
(* the yield, then the next iteration up to the next yield.                *)
(***************************************************************************)

Chunk(ea, length) == [effective_address |-> ea, length |-> length]

StackChangePoint(ea, change) == [effective_address |-> ea, change |-> change]

\* for delta, length in ...: a group that is not a pair cannot be unpacked.
ValueError == [err |-> "ValueError"]

get_chunks_frame ==
    [fn |-> "get_chunks", started |-> FALSE, v |-> <<>>, g |-> dds_frame,
     last_ea |-> 0, last_length |-> 0, ea |-> 0, length |-> 0]

\* ea = last_ea + last_length + delta; yield Chunk(ea, length)
get_chunks_yield(f, g, delta, length, ea) ==
    [f |-> [f EXCEPT !.g = g, !.ea = ea, !.length = length],
     kind |-> "yield", val |-> Chunk(ea, length)]

get_chunks_body_from_delta(f, p) ==
    CASE p.kind = "raise" -> [f |-> f, kind |-> "raise", err |-> p.err]
      [] p.kind = "stop" -> [f |-> [f EXCEPT !.g = p.g], kind |-> "stop"]
      [] p.kind = "yield" ->
           IF Len(p.val) # 2
           THEN [f |-> [f EXCEPT !.g = p.g], kind |-> "raise", err |-> ValueError.err]
           ELSE get_chunks_yield(f, p.g, p.val[1], p.val[2], p.val[1])

\* for delta, length in pairs(unpack_dds(v)): one group p of the pairs.
get_chunks_body(f, p) ==
    CASE p.kind = "raise" -> [f |-> f, kind |-> "raise", err |-> p.err]
      [] p.kind = "stop" -> [f |-> [f EXCEPT !.g = p.g], kind |-> "stop"]
      [] p.kind = "yield" ->
           IF Len(p.val) # 2
           THEN [f |-> [f EXCEPT !.g = p.g], kind |-> "raise", err |-> ValueError.err]
           ELSE get_chunks_yield(f, p.g, p.val[1], p.val[2],
                                 f.last_ea + f.last_length + p.val[1])

get_chunks_iter(f) == get_chunks_body(f, pairs_next(f.v, f.g))

\* v = self.netnode.supval(tag='S', index=0x7000); last_ea = 0; last_length = 0
get_chunks_enter(f, sv) ==
    IF sv.err # "none" THEN [f |-> f, kind |-> "raise", err |-> sv.err]
    ELSE get_chunks_iter([f EXCEPT !.started = TRUE, !.v = sv.val,
                                   !.last_ea = 0, !.last_length = 0])

\* One next() on get_chunks(): from the start, or from the yield, where
\* last_ea = ea and last_length = length run first.
get_chunks_next(db, me, f) ==
    IF ~f.started THEN get_chunks_enter(f, supval(db, me.nodeid, 28672, "S"))
    ELSE get_chunks_iter([f EXCEPT !.last_ea = f.ea, !.last_length = f.length])

get_stack_change_points_frame ==
    [fn |-> "get_stack_change_points", started |-> FALSE, v |-> <<>>, g |-> dds_frame,
     offset |-> 0]

\* offset += delta; yield StackChangePoint(offset, change)
get_scp_yield(f, g, offset, change) ==
    [f |-> [f EXCEPT !.g = g, !.offset = offset],
     kind |-> "yield", val |-> StackChangePoint(offset, change)]

scp_change_unsigned(change) == Shr(change, 1)

\* if change & 1: change = change >> 1 else: change = -(change >> 1)
scp_change(change) == IF And(change, 1) # 0 THEN Shr(change, 1) ELSE -Shr(change, 1)

\* for (delta, change) in pairs(unpack_dds(v)): one group p of the pairs.
get_scp_body(f, p) ==
    CASE p.kind = "raise" -> [f |-> f, kind |-> "raise", err |-> p.err]
      [] p.kind = "stop" -> [f |-> [f EXCEPT !.g = p.g], kind |-> "stop"]
      [] p.kind = "yield" ->
           IF Len(p.val) # 2
           THEN [f |-> [f EXCEPT !.g = p.g], kind |-> "raise", err |-> ValueError.err]
           ELSE get_scp_yield(f, p.g, f.offset + p.val[1], scp_change(p.val[2]))

get_scp_iter(f) == get_scp_body(f, pairs_next(f.v, f.g))

\* v = self.netnode.supval(tag='S', index=0x1000); offset = self.nodeid
get_scp_enter(me, f, sv) ==
    IF sv.err # "none" THEN [f |-> f, kind |-> "raise", err |-> sv.err]
    ELSE get_scp_iter([f EXCEPT !.started = TRUE, !.v = sv.val, !.offset = me.nodeid])

\* One next() on get_stack_change_points().
get_stack_change_points_next(db, me, f) ==
    IF ~f.started THEN get_scp_enter(me, f, supval(db, me.nodeid, 4096, "S"))
    ELSE get_scp_iter(f)

\* The Function specification: a function node whose S-0x7000 and S-0x1000
\* values are the same buffer of up to MaxFnDds encodings (possibly cut), or
\* are both missing.
MaxFnDds == 4

FnEncodings == {<<6>>, <<7>>, <<129, 0>>, <<192, 1, 0, 5>>}

FnCuts == {<<>>, <<128>>}

FnBufs == {Concat(es) \o c : es \in SeqsUpTo(FnEncodings, MaxFnDds), c \in FnCuts}

FnAddresses == {0, 4198400}

FnStore(nodeid, b) ==
    {[nodeid |-> nodeid, tag |-> "S", index |-> 28672, value |-> b],
     [nodeid |-> nodeid, tag |-> "S", index |-> 4096, value |-> b]}

InitFunction ==
    /\ self \in {[cls |-> "Function", nodeid |-> a] : a \in FnAddresses}
    /\ \/ idb = [wordsize |-> 4, sup |-> {}]
       \/ \E b \in FnBufs : idb = [wordsize |-> 4, sup |-> FnStore(self.nodeid, b)]
    /\ buf = <<>>
    /\ pc = "ready"
    /\ loc = NoLoc
    /\ out = <<>>
    /\ ret = NoRet

\* Calling a generator function runs none of its body.
Call_get_chunks ==
    /\ pc = "ready"
    /\ self.cls = "Function"
    /\ pc' = "suspended"
    /\ loc' = get_chunks_frame
    /\ UNCHANGED <<idb, self, buf, out, ret>>

Call_get_stack_change_points ==
    /\ pc = "ready"
    /\ self.cls = "Function"
    /\ pc' = "suspended"
    /\ loc' = get_stack_change_points_frame
    /\ UNCHANGED <<idb, self, buf, out, ret>>

\* What one next() on the running generator does to pc, loc, out and ret.
Resume(n) ==
    /\ loc' = n.f
    /\ pc' = CASE n.kind = "yield" -> "suspended"
               [] n.kind = "stop" -> "done"
               [] n.kind = "raise" -> "raised"
    /\ out' = IF n.kind = "yield" THEN Append(out, n.val) ELSE out
    /\ ret' = IF n.kind = "raise" THEN [fn |-> loc.fn, err |-> n.err] ELSE ret

Next_get_chunks ==
    /\ pc = "suspended"
    /\ loc.fn = "get_chunks"
    /\ Resume(get_chunks_next(idb, self, loc))
    /\ UNCHANGED <<idb, self, buf>>

Next_get_stack_change_points ==
    /\ pc = "suspended"
    /\ loc.fn = "get_stack_change_points"
    /\ Resume(get_stack_change_points_next(idb, self, loc))
    /\ UNCHANGED <<idb, self, buf>>

NextFunction ==
    \/ Call_get_chunks
    \/ Call_get_stack_change_points
    \/ Next_get_chunks
    \/ Next_get_stack_change_points

SpecFunction == InitFunction /\ [][NextFunction]_vars

\* The stored array is a sequence of (delta, x) pairs: complete encodings, an
\* even number of them.
StoredPairs(index) ==
    /\ idb.sup # {}
    /\ LET v == (CHOOSE e \in idb.sup : e.index = index).value IN
       /\ IsDdConcat(v)
       /\ Len(DocumentedDds(v)) % 2 = 0

StoredVals(index) == DocumentedDds((CHOOSE e \in idb.sup : e.index = index).value)

(***************************************************************************)
(* C8: get_chunks yields one chunk per stored (delta, length) pair, in     *)
(* stored order: the first is (delta_1, length_1), and chunk k > 1 is      *)
(* (ea_{k-1} + length_{k-1} + delta_k, length_k).                          *)
(***************************************************************************)
C8_GetChunks ==
    (loc.fn = "get_chunks" /\ StoredPairs(28672)) =>
        LET vals == StoredVals(28672) IN
        /\ pc # "raised"
        /\ 2 * Len(out) <= Len(vals)
        /\ (pc = "done" => 2 * Len(out) = Len(vals))
        /\ \A k \in 1..Len(out) :
               /\ out[k].length = vals[2 * k]
               /\ out[k].effective_address =
                      IF k = 1 THEN vals[1]
                      ELSE out[k - 1].effective_address + out[k - 1].length
                           + vals[2 * k - 1]

\* Two chunks decoded to the end, the second displaced by the first.
C8_Witness ==
    /\ loc.fn = "get_chunks"
    /\ StoredPairs(28672)
    /\ pc = "done"
    /\ Len(out) = 2
    /\ out[1].effective_address > 0
    /\ out[1].length > 0
    /\ out[2].effective_address > out[1].effective_address + out[1].length

(***************************************************************************)
(* C9: get_stack_change_points yields one point per stored (delta,         *)
(* encoded_change) pair, in stored order: the k-th point's address is the  *)
(* function's start address plus the first k deltas, and its change is     *)
(* +(encoded >> 1) when encoded is odd and -(encoded >> 1) when it is even *)
(* (7 gives +3, 6 gives -3).                                               *)
(***************************************************************************)
RECURSIVE SumDeltas(_, _)
SumDeltas(vals, k) == IF k = 0 THEN 0 ELSE vals[2 * k - 1] + SumDeltas(vals, k - 1)

DocumentedChange(e) == IF e % 2 = 1 THEN e \div 2 ELSE -(e \div 2)

C9_StackChangePoints ==
    (loc.fn = "get_stack_change_points" /\ StoredPairs(4096)) =>
        LET vals == StoredVals(4096) IN
        /\ pc # "raised"
        /\ 2 * Len(out) <= Len(vals)
        /\ (pc = "done" => 2 * Len(out) = Len(vals))
        /\ \A k \in 1..Len(out) :
               /\ out[k].effective_address = self.nodeid + SumDeltas(vals, k)
               /\ out[k].change = DocumentedChange(vals[2 * k])
               /\ (vals[2 * k] = 7 => out[k].change = 3)
               /\ (vals[2 * k] = 6 => out[k].change = -3)

\* Two points of a function at a non-zero address, one +3 and one -3.
C9_Witness ==
    /\ loc.fn = "get_stack_change_points"
    /\ StoredPairs(4096)
    /\ self.nodeid > 0
    /\ pc = "done"
    /\ Len(out) = 2
    /\ out[1].change = 3
    /\ out[2].change = -3
    /\ out[2].effective_address > out[1].effective_address

(***************************************************************************)
(* func_t: the record of one "$ funcs" entry.                              *)
(***************************************************************************)

FUNC_TAIL == 32768

\* v, size = unpack_dd(...) or unpack_dw(...), the value as an integer.
unpack_int(r) == IF r.err # "none" THEN r ELSE Ok(IntOf(r.val), r.size)

unpack_field(kind, b, offset) ==
    IF kind = "dd" THEN unpack_int(unpack_dd(b, offset)) ELSE unpack_dw(b, offset)

\* The reads of get_values, in order: v, size = unpack(...); offset += size;
\* vals.append(v).  The first read that fails ends them.
RECURSIVE read_fields(_, _, _, _)
read_append(b, offset, plan, vals, r) ==
    IF r.err # "none" THEN [vals |-> vals, offset |-> offset, err |-> r.err]
    ELSE read_fields(b, offset + r.size, Tail(plan), Append(vals, r.val))

read_fields(b, offset, plan, vals) ==
    IF plan = <<>> THEN [vals |-> vals, offset |-> offset, err |-> "none"]
    ELSE read_append(b, offset, plan, vals, unpack_field(Head(plan), b, offset))

HeadFields == <<"dd", "dd", "dw">>

FrameFields == <<"dd", "dd", "dw", "dd", "dw">>

TailFields == <<"dd", "dw">>

\* try: ... except IndexError: pass  finally: return vals
get_values_try_no_except(b, m) ==
    IF m.err # "none" THEN [err |-> m.err]
    ELSE LET t == read_fields(b, m.offset,
                              IF ~is_flag_set(m.vals[3], FUNC_TAIL)
                              THEN FrameFields ELSE TailFields, m.vals)
         IN  IF t.err # "none" THEN [err |-> t.err] ELSE [err |-> "none", vals |-> t.vals]

get_values_try(b, m) ==
    IF m.err # "none" THEN [err |-> m.err]
    ELSE [err |-> "none",
          vals |-> read_fields(b, m.offset,
                               IF ~is_flag_set(m.vals[3], FUNC_TAIL)
                               THEN FrameFields ELSE TailFields, m.vals).vals]

\* func_t.get_values: the first three reads are outside the try.
get_values(b) == get_values_try(b, read_fields(b, 0, HeadFields, <<>>))

\* self.x = self.vals[i] inside the try of __init__: the assignments run in
\* index order, so the first missing index leaves it and every later one None.
val_or_none(vals, i) == IF i < Len(vals) THEN Some(vals[i + 1]) ELSE None

func_t_frame(vals) ==
    [err |-> "none",
     startEA |-> vals[1], endEA |-> vals[1] + vals[2], flags |-> vals[3],
     frame |-> val_or_none(vals, 3), frsize |-> val_or_none(vals, 4),
     frregs |-> val_or_none(vals, 5), argsize |-> val_or_none(vals, 6),
     fpd |-> val_or_none(vals, 7), color |-> val_or_none(vals, 8),
     owner |-> None, refqty |-> None]

\* self.owner = self.startEA - self.vals[3]; self.refqty = self.vals[4]
func_t_tail(vals) ==
    IF Len(vals) < 5 THEN IndexError
    ELSE [err |-> "none",
          startEA |-> vals[1], endEA |-> vals[1] + vals[2], flags |-> vals[3],
          frame |-> None, frsize |-> None, frregs |-> None, argsize |-> None,
          fpd |-> None, color |-> None,
          owner |-> Some(vals[1] - vals[4]), refqty |-> Some(vals[5])]

func_t_init(gv) ==
    IF gv.err # "none" THEN [err |-> gv.err]
    ELSE IF ~is_flag_set(gv.vals[3], FUNC_TAIL) THEN func_t_frame(gv.vals)
    ELSE func_t_tail(gv.vals)

\* func_t(buf)
func_t(b) == func_t_init(get_values(b))

\* Buffers of the func_t specification: a start, a size, flags and the fields
\* that follow, then up to MaxExtra further bytes, cut at any length.
MaxExtra == 1

StartEncodings == {<<16>>, <<224, 0, 64, 16, 0>>}

SizeEncodings == {<<32>>, <<129, 0>>}

FlagEncodings == {<<0>>, <<144, 16>>, <<192, 0, 16>>, <<255, 128, 0>>, <<192, 144, 16>>}

RestEncodings ==
    {<<1, 2, 3, 4, 5>>,
     <<5, 192, 1, 2, 3>>,
     <<192, 0, 1, 0, 129, 16, 192, 1, 2, 224, 0, 0, 0, 1, 133, 0>>}

FuncRecords ==
    {a \o z \o f \o r \o x : a \in StartEncodings, z \in SizeEncodings,
                             f \in FlagEncodings, r \in RestEncodings,
                             x \in SeqsUpTo({7}, MaxExtra)}

FuncBufs == UNION {{SubSeq(rec, 1, k) : k \in 0..Len(rec)} : rec \in FuncRecords}

InitFunc ==
    /\ buf \in FuncBufs
    /\ idb = NoDb
    /\ self = NoSelf
    /\ pc = "func_t"
    /\ loc = NoLoc
    /\ out = <<>>
    /\ ret = NoRet

New_func_t ==
    /\ pc = "func_t"
    /\ ret' = [fn |-> "func_t", r |-> func_t(buf)]
    /\ UNCHANGED <<idb, self, buf, pc, loc, out>>

NextFunc == New_func_t

SpecFunc == InitFunc /\ [][NextFunc]_vars

(***************************************************************************)
(* C3: when the buffer holds a complete start (dd), size (dd) and flags    *)
(* (dw) with FUNC_TAIL clear, then any bytes (the later fields cut at any  *)
(* byte), func_t(buf) does not raise, startEA, endEA = start + size and    *)
(* flags are set, and every optional field whose bytes are not all in the  *)
(* buffer is None.                                                         *)
(***************************************************************************)

DwWidthOf(header) ==
    IF header < 128 THEN 1 ELSE IF header < 192 THEN 2 ELSE 3

DocumentedDw(b) ==
    LET h == At(b, 0) IN
    CASE DwWidthOf(h) = 1 -> h
      [] DwWidthOf(h) = 2 -> (h * 256 + At(b, 1)) % 32768
      [] DwWidthOf(h) = 3 -> At(b, 1) * 256 + At(b, 2)

\* The offset after the field of the given kind that starts at offset, or -1
\* when its bytes are not all in b (or offset is already -1).
FieldEnd(b, offset, kind) ==
    IF offset < 0 \/ offset >= Len(b) THEN -1
    ELSE LET w == IF kind = "dd" THEN WidthOf(At(b, offset)) ELSE DwWidthOf(At(b, offset))
         IN  IF offset + w <= Len(b) THEN offset + w ELSE -1

\* The end offsets of the fields of plan laid out from offset.
RECURSIVE FieldEnds(_, _, _)
FieldEnds(b, offset, plan) ==
    IF plan = <<>> THEN <<>>
    ELSE LET e == FieldEnd(b, offset, Head(plan)) IN <<e>> \o FieldEnds(b, e, Tail(plan))

HeadComplete(b) == FieldEnds(b, 0, HeadFields)[3] >= 0

DocumentedFlags(b) == DocumentedDw(Slice(b, FieldEnds(b, 0, HeadFields)[2]))

DocumentedInt(b) == LET d == DocumentedDd(b) IN d[1] * 65536 + d[2]

\* The optional attributes in the order func_t.__init__ assigns them; the
\* k-th is read from the k-th field after the flags.
OptionalOf(r) == <<r.frame, r.frsize, r.frregs, r.argsize, r.fpd, r.color>>

C3_FuncTruncated ==
    (ret.fn = "func_t" /\ HeadComplete(buf) /\ DocumentedFlags(buf) < 32768) =>
        LET ends == FieldEnds(buf, 0, HeadFields \o FrameFields) IN
        /\ ret.r.err = "none"
        /\ ret.r.startEA = DocumentedInt(buf)
        /\ ret.r.endEA = ret.r.startEA + DocumentedInt(Slice(buf, ends[1]))
        /\ ret.r.flags = DocumentedFlags(buf)
        /\ \A k \in 1..6 :
               (k > Len(FrameFields) \/ ends[3 + k] < 0) => OptionalOf(ret.r)[k] = None
        /\ ret.r.owner = None
        /\ ret.r.refqty = None

\* A record cut inside the multi-byte encoding of its third optional field:
\* the two fields before it are set, it and the later ones are None.
C3_Witness ==
    /\ ret.fn = "func_t"
    /\ HeadComplete(buf)
    /\ DocumentedFlags(buf) < 32768
    /\ DocumentedFlags(buf) > 255
    /\ Len(buf) = FieldEnds(buf, 0, HeadFields \o FrameFields)[5] + 1
    /\ At(buf, Len(buf) - 1) >= 128
    /\ ret.r.err = "none"
    /\ ret.r.frame # None
    /\ ret.r.frsize # None
    /\ ret.r.frregs = None
    /\ ret.r.color = None

(***************************************************************************)
(* _Analysis: the field-analysis framework.                                *)
(*                                                                         *)
(* A netnode index reaches 2^64 - 1, so an index is the tuple of its eight *)
(* bytes, most significant first; & is taken byte by byte and the order is *)
(* the lexicographic one.                                                  *)
(***************************************************************************)

AndBytes(x, y) == [i \in 1..8 |-> And(x[i], y[i])]

LtBytes(x, y) == \E i \in 1..8 : x[i] < y[i] /\ \A j \in 1..(i - 1) : x[j] = y[j]

\* 0xFF000000 and 0xFF00000000000000
MASK32 == <<0, 0, 0, 0, 255, 0, 0, 0>>

MASK64 == <<255, 0, 0, 0, 0, 0, 0, 0>>

\* IndexType('all'), ... and a literal index
ALL == [kind |-> "all"]

ADDRESSES == [kind |-> "addresses"]

NUMBERS == [kind |-> "numbers"]

NODES == [kind |-> "nodes"]

Literal(index) == [kind |-> "literal", index |-> index]

VARIABLE_INDEXES == {ALL, ADDRESSES, NUMBERS, NODES}

Field(name, tag, index, cast) == [name |-> name, tag |-> tag, index |-> index, cast |-> cast]

Bool(v) == [err |-> "none", val |-> v]

\* idb.id1.get_segment(index): KeyError unless a segment holds the index.
get_segment(db, index) ==
    IF \E seg \in db.segs : ~LtBytes(index, seg.startEA) /\ LtBytes(index, seg.endEA)
    THEN [err |-> "none"]
    ELSE KeyError

\* _Analysis._is_address
is_address(db, index) == Bool(get_segment(db, index).err = "none")

\* _Analysis._is_node
is_node(db, index) ==
    IF db.wordsize = 4 THEN Bool(AndBytes(index, MASK32) = MASK32)
    ELSE IF db.wordsize = 8 THEN Bool(AndBytes(index, MASK64) = MASK64)
    ELSE [err |-> "RuntimeError"]

\* _is_number were it to reject only what both other tests accept.
is_number_either(db, index) ==
    IF is_address(db, index).val /\ is_node(db, index).val THEN Bool(FALSE) ELSE Bool(TRUE)

\* _Analysis._is_number: `and` does not evaluate _is_node for an address.
is_number(db, index) ==
    IF is_address(db, index).val THEN Bool(FALSE)
    ELSE IF is_node(db, index).err # "none" THEN is_node(db, index)
    ELSE Bool(~is_node(db, index).val)

\* nfilter(sup.parsed_key.index) for the field's marker
nfilter(db, marker, index) ==
    CASE marker = ADDRESSES -> is_address(db, index)
      [] marker = NUMBERS -> is_number(db, index)
      [] marker = NODES -> is_node(db, index)
      [] marker = ALL -> Bool(TRUE)

\* as_md5: binascii.hexlify(buf).decode('ascii'), a string as its characters
HexDigits == <<"0", "1", "2", "3", "4", "5", "6", "7", "8", "9", "a", "b", "c", "d", "e", "f">>

RECURSIVE as_md5(_)
as_md5(b) ==
    IF b = <<>> THEN <<>>
    ELSE <<HexDigits[(Head(b) \div 16) + 1], HexDigits[(Head(b) % 16) + 1]>> \o as_md5(Tail(b))

\* field.cast(bytes(v)), or bytes(v) when field.cast is None
apply_cast(cast, v) ==
    CASE cast = "None" -> v
      [] cast = "bytes" -> v
      [] cast = "as_md5" -> as_md5(v)

\* self._fields_by_name = {f.name: f for f in self.fields}
fields_by_name(me) ==
    [n \in {me.fields[i].name : i \in DOMAIN me.fields} |->
        me.fields[CHOOSE i \in DOMAIN me.fields :
                      /\ me.fields[i].name = n
                      /\ \A j \in DOMAIN me.fields : me.fields[j].name = n => j <= i]]

\* super(Analysis, self).__getattr__(key): Analysis is the factory function
\* of line 314, not a class, and super() refuses it.
super_getattr(key) == [err |-> "TypeError", reads |-> 0]

\* The variable-index branch were it to skip field.cast.
getattr_raw(db, field, sups) ==
    IF \E e \in sups : nfilter(db, field.index, e.index).err # "none"
    THEN [err |-> "RuntimeError", reads |-> 1]
    ELSE [err |-> "none", reads |-> 1,
          val |-> [i \in {e.index : e \in {x \in sups : nfilter(db, field.index, x.index).val}}
                    |-> (CHOOSE e \in sups : e.index = i).value]]

\* the field's index is a marker: map the kept entries' indexes to their values
getattr_variable(db, field, sups) ==
    IF \E e \in sups : nfilter(db, field.index, e.index).err # "none"
    THEN [err |-> "RuntimeError", reads |-> 1]
    ELSE [err |-> "none", reads |-> 1,
          val |-> [i \in {e.index : e \in {x \in sups : nfilter(db, field.index, x.index).val}}
                    |-> apply_cast(field.cast, (CHOOSE e \in sups : e.index = i).value)]]

\* a field with an explicit index
getattr_literal(field, v) ==
    IF v.err # "none" THEN [err |-> v.err, reads |-> 1]
    ELSE [err |-> "none", reads |-> 1, val |-> apply_cast(field.cast, v.val)]

getattr_field(db, me, field) ==
    IF field.index \in VARIABLE_INDEXES
    THEN getattr_variable(db, field, supentries(db, me.nodeid, field.tag))
    ELSE getattr_literal(field, supval(db, me.nodeid, field.index.index, field.tag))

\* _Analysis.__getattr__
getattr(db, me, key) ==
    IF key \notin DOMAIN fields_by_name(me) THEN super_getattr(key)
    ELSE getattr_field(db, me, fields_by_name(me)[key])

\* _Analysis.get_field_tag
get_field_tag(me, name) ==
    IF name \notin DOMAIN fields_by_name(me) THEN [err |-> "KeyError", reads |-> 0]
    ELSE [err |-> "none", reads |-> 0, val |-> fields_by_name(me)[name].tag]

\* _Analysis.get_field_index
get_field_index(me, name) ==
    IF name \notin DOMAIN fields_by_name(me) THEN [err |-> "KeyError", reads |-> 0]
    ELSE [err |-> "none", reads |-> 0, val |-> fields_by_name(me)[name].index]

(***************************************************************************)
(* The analysis specification: an analyzer with one field per marker and   *)
(* two literal fields, over a database of word size 4 or 8 whose segments  *)
(* and sup entries are drawn from the ones below (at most MaxEntries       *)
(* entries).                                                               *)
(***************************************************************************)

MaxEntries == 3

IDX_ZERO == <<0, 0, 0, 0, 0, 0, 0, 0>>

IDX_ORDINAL == <<0, 0, 0, 0, 0, 0, 0, 1>>

IDX_MD5 == <<0, 0, 0, 0, 0, 0, 5, 22>>

IDX_TEXT == <<0, 0, 0, 0, 0, 64, 16, 0>>

IDX_NODE32 == <<0, 0, 0, 0, 255, 0, 0, 117>>

IDX_BIOS == <<0, 0, 0, 0, 255, 255, 255, 240>>

IDX_NODE64 == <<255, 0, 0, 0, 0, 0, 0, 117>>

IDX_KERNEL == <<255, 255, 255, 255, 129, 0, 0, 0>>

Indexes32 == {IDX_ORDINAL, IDX_MD5, IDX_TEXT, IDX_NODE32, IDX_BIOS}

Indexes64 == {IDX_ORDINAL, IDX_TEXT, IDX_NODE32, IDX_NODE64, IDX_KERNEL}

Segment(startEA, endEA) == [startEA |-> startEA, endEA |-> endEA]

\* .text at 0x401000, a BIOS image at 0xFFFF0000 .. 2^32, a kernel at
\* 0xFFFFFFFF81000000
Segments32 ==
    {Segment(IDX_TEXT, <<0, 0, 0, 0, 0, 64, 32, 0>>),
     Segment(<<0, 0, 0, 0, 255, 255, 0, 0>>, <<0, 0, 0, 1, 0, 0, 0, 0>>)}

Segments64 ==
    {Segment(IDX_TEXT, <<0, 0, 0, 0, 0, 64, 32, 0>>),
     Segment(IDX_KERNEL, <<255, 255, 255, 255, 129, 0, 16, 0>>)}

TestNode == "$ test"

TestFields ==
    <<Field("ordinals", "S", NUMBERS, "as_md5"),
      Field("addresses", "S", ADDRESSES, "as_md5"),
      Field("nodes", "S", NODES, "None"),
      Field("all", "S", ALL, "bytes"),
      Field("alts", "A", ALL, "None"),
      Field("md5", "S", Literal(IDX_MD5), "as_md5"),
      Field("data", "S", Literal(IDX_ZERO), "None")>>

FieldNames == {"ordinals", "addresses", "nodes", "all", "alts", "md5", "data", "nosuch"}

SupEntry(tag, index) ==
    [nodeid |-> TestNode, tag |-> tag, index |-> index,
     value |-> <<index[5], index[8]>>]

SupChoices(ws) ==
    {SupEntry("S", i) : i \in IF ws = 4 THEN Indexes32 ELSE Indexes64}
        \cup {SupEntry("A", IDX_ORDINAL)}

InitAnalysis ==
    /\ \E ws \in {4, 8} :
       \E segs \in SUBSET (IF ws = 4 THEN Segments32 ELSE Segments64) :
       \E sup \in {x \in SUBSET SupChoices(ws) : Cardinality(x) <= MaxEntries} :
           idb = [wordsize |-> ws, segs |-> segs, sup |-> sup]
    /\ self = [cls |-> "Analysis", nodeid |-> TestNode, fields |-> TestFields]
    /\ buf = <<>>
    /\ pc = "analysis"
    /\ loc = NoLoc
    /\ out = <<>>
    /\ ret = NoRet

Getattr ==
    /\ pc = "analysis"
    /\ \E key \in FieldNames :
           ret' = [fn |-> "getattr", key |-> key, r |-> getattr(idb, self, key)]
    /\ UNCHANGED <<idb, self, buf, pc, loc, out>>

Get_field_tag ==
    /\ pc = "analysis"
    /\ \E name \in FieldNames :
           ret' = [fn |-> "get_field_tag", key |-> name, r |-> get_field_tag(self, name)]
    /\ UNCHANGED <<idb, self, buf, pc, loc, out>>

Get_field_index ==
    /\ pc = "analysis"
    /\ \E name \in FieldNames :
           ret' = [fn |-> "get_field_index", key |-> name, r |-> get_field_index(self, name)]
    /\ UNCHANGED <<idb, self, buf, pc, loc, out>>

NextAnalysis == Getattr \/ Get_field_tag \/ Get_field_index

SpecAnalysis == InitAnalysis /\ [][NextAnalysis]_vars

\* What the documentation says of an index: inside a segment; top byte 0xFF
\* for the word size.
InSegment(i) == \E seg \in idb.segs : ~LtBytes(i, seg.startEA) /\ LtBytes(i, seg.endEA)

TopByteFF(i) == IF idb.wordsize = 4 THEN i[5] = 255 ELSE i[1] = 255

AllIndexes == Indexes32 \cup Indexes64 \cup {IDX_ZERO}

Accepting(i) ==
    (IF is_address(idb, i).val THEN {"_is_address"} ELSE {})
        \cup (IF is_node(idb, i).val THEN {"_is_node"} ELSE {})
        \cup (IF is_number(idb, i).val THEN {"_is_number"} ELSE {})

(***************************************************************************)
(* C1 as claimed: for every index exactly one of _is_address, _is_node and *)
(* _is_number accepts it; an index _is_address accepts is rejected by      *)
(* _is_node and _is_number, an index _is_node accepts by _is_address.      *)
(***************************************************************************)
C1_ExactlyOne ==
    \A i \in AllIndexes :
        /\ Cardinality(Accepting(i)) = 1
        /\ ("_is_address" \in Accepting(i) => Accepting(i) = {"_is_address"})
        /\ ("_is_node" \in Accepting(i) => "_is_address" \notin Accepting(i))

(***************************************************************************)
(* C1 as amended: for every index at least one of the three filters        *)
(* accepts it, and _is_number accepts exactly the indexes that _is_address *)
(* and _is_node both reject (so an index either of them accepts is         *)
(* rejected by _is_number); _is_address is the segment test and _is_node   *)
(* the top-byte test, and the two may accept the same index.               *)
(***************************************************************************)
C1_NumberIsTheRest ==
    \A i \in AllIndexes :
        /\ Accepting(i) # {}
        /\ ("_is_number" \in Accepting(i)) <=> (Accepting(i) \cap {"_is_address", "_is_node"} = {})
        /\ ("_is_address" \in Accepting(i)) <=> InSegment(i)
        /\ ("_is_node" \in Accepting(i)) <=> TopByteFF(i)

\* A NODES field was read and returned an index that lies in a segment.
C1_Witness ==
    /\ ret.fn = "getattr"
    /\ ret.key = "nodes"
    /\ ret.r.err = "none"
    /\ \E i \in DOMAIN ret.r.val : Accepting(i) = {"_is_address", "_is_node"}

\* The declared field of the last call, the entries stored under its tag.
DeclaredNames == {TestFields[k].name : k \in DOMAIN TestFields}

DeclaredField(name) == TestFields[CHOOSE k \in DOMAIN TestFields : TestFields[k].name = name]

StoredUnder(tag) == {e \in idb.sup : e.nodeid = TestNode /\ e.tag = tag}

MarkerAccess ==
    /\ ret.fn = "getattr"
    /\ ret.key \in DeclaredNames
    /\ DeclaredField(ret.key).index \in VARIABLE_INDEXES

Decoded(f, v) == IF f.cast = "as_md5" THEN as_md5(v) ELSE v

\* The result of the last call maps exactly the indexes of keep to their
\* decoded values.
MapsExactly(keep) ==
    /\ ret.r.err = "none"
    /\ DOMAIN ret.r.val = {e.index : e \in keep}
    /\ \A e \in keep : ret.r.val[e.index] = Decoded(DeclaredField(ret.key), e.value)

\* address first, then node, else number
Classification(i) ==
    IF InSegment(i) THEN ADDRESSES ELSE IF TopByteFF(i) THEN NODES ELSE NUMBERS

(***************************************************************************)
(* C2 as claimed: reading a field whose index is a marker returns the      *)
(* mapping from the indexes of the entries under the tag whose             *)
(* classification (address first, then node, else number) is the marker,   *)
(* all of them for ALL, to their decoded values; with no entry under the   *)
(* tag it is the empty mapping.                                            *)
(***************************************************************************)
C2_ByClassification ==
    MarkerAccess =>
        LET f == DeclaredField(ret.key) IN
        /\ MapsExactly({e \in StoredUnder(f.tag) :
                            f.index = ALL \/ Classification(e.index) = f.index})
        /\ (StoredUnder(f.tag) = {} => DOMAIN ret.r.val = {})

(***************************************************************************)
(* C2 as amended: reading a field whose index is a marker returns the      *)
(* mapping from the indexes of the entries under the tag that the marker's *)
(* filter accepts (ADDRESSES: in a segment; NODES: top byte 0xFF, in a     *)
(* segment or not; NUMBERS: neither; ALL: every entry) to their decoded    *)
(* values; with no entry under the tag it is the empty mapping.            *)
(***************************************************************************)
AcceptedBy(marker, i) ==
    CASE marker = ADDRESSES -> InSegment(i)
      [] marker = NODES -> TopByteFF(i)
      [] marker = NUMBERS -> ~InSegment(i) /\ ~TopByteFF(i)
      [] marker = ALL -> TRUE

C2_ByFilter ==
    MarkerAccess =>
        LET f == DeclaredField(ret.key) IN
        /\ MapsExactly({e \in StoredUnder(f.tag) : AcceptedBy(f.index, e.index)})
        /\ (StoredUnder(f.tag) = {} => DOMAIN ret.r.val = {})

\* An ADDRESSES field read over three entries, two kept and decoded, one not.
C2_Witness ==
    /\ MarkerAccess
    /\ ret.key = "addresses"
    /\ Cardinality(StoredUnder("S")) = 3
    /\ Cardinality(DOMAIN ret.r.val) = 2
    /\ \E i \in DOMAIN ret.r.val : Len(ret.r.val[i]) = 4

(***************************************************************************)
(* C10 as claimed: resolving an undeclared field name signals a not-found  *)
(* error other than KeyError, without reading the store; get_field_tag and *)
(* get_field_index signal not-found for an unknown name and otherwise      *)
(* return the declared tag and index, after any sequence of accesses.      *)
(***************************************************************************)
NotFoundSignals == {"AttributeError", "KeyError", "LookupError"}

C10_UndeclaredNotFound ==
    /\ self.fields = TestFields
    /\ (ret.fn = "getattr" /\ ret.key \notin DeclaredNames) =>
           /\ ret.r.err \in NotFoundSignals \ {"KeyError"}
           /\ ret.r.reads = 0
    /\ (ret.fn \in {"get_field_tag", "get_field_index"} /\ ret.key \notin DeclaredNames) =>
           ret.r.err \in NotFoundSignals
    /\ (ret.fn = "get_field_tag" /\ ret.key \in DeclaredNames) =>
           ret.r.err = "none" /\ ret.r.val = DeclaredField(ret.key).tag
    /\ (ret.fn = "get_field_index" /\ ret.key \in DeclaredNames) =>
           ret.r.err = "none" /\ ret.r.val = DeclaredField(ret.key).index

(***************************************************************************)
(* Cross-references: _get_xrefs and its four wrappers.  An address         *)
(* argument is None or Some(ea); types is None or Some(set of type codes). *)
(* The store holds the char entries of one node under one tag, in key      *)
(* order.                                                                  *)
(***************************************************************************)

Xref(src, dst, type) == [src |-> src, dst |-> dst, type |-> type]

\* Python truth of an optional address: None and 0 are false.
truth_of_address(a) == a # None /\ a[1] # 0

\* Python truth of an optional collection: None and the empty one are false.
truth_of_collection(c) == c # None /\ c[1] # {}

\* Netnode.charentries(tag): the entries under (nodeid, tag) in key order,
\* KeyError when there is none.
charentries(db, nodeid, tag) ==
    IF db.xnode = nodeid /\ db.xtag = tag /\ db.chr # <<>>
    THEN [err |-> "none", val |-> db.chr]
    ELSE KeyError

\* line 788: (types and entry.value in types) or (not types)
xrefs_keep(types, entry) ==
    \/ truth_of_collection(types) /\ entry.value \in types[1]
    \/ ~truth_of_collection(types)

\* lines 789-792: the Xref yielded for one entry
xrefs_yield(src, dst, entry) ==
    IF truth_of_address(src) THEN Xref(src[1], entry.key, entry.value)
    ELSE Xref(entry.key, dst[1], entry.value)

\* lines 787-792: the loop over the entries
RECURSIVE xrefs_loop(_, _, _, _)
xrefs_loop(entries, src, dst, types) ==
    IF entries = <<>> THEN <<>>
    ELSE (IF xrefs_keep(types, Head(entries))
          THEN <<xrefs_yield(src, dst, Head(entries))>>
          ELSE <<>>) \o xrefs_loop(Tail(entries), src, dst, types)

\* lines 785-794 once the node is opened
xrefs_try(found, src, dst, types) ==
    IF found.err = "KeyError" THEN [err |-> "none", val |-> <<>>]
    ELSE [err |-> "none", val |-> xrefs_loop(found.val, src, dst, types)]

\* list(_get_xrefs(db, tag, src, dst, types)): what iterating the generator gives
get_xrefs(db, tag, src, dst, types) ==
    IF ~truth_of_address(src) /\ ~truth_of_address(dst) THEN ValueError
    ELSE xrefs_try(charentries(db, IF truth_of_address(src) THEN src[1] ELSE dst[1], tag),
                   src, dst, types)

get_crefs_to(db, ea, types) == get_xrefs(db, "X", None, ea, types)

get_crefs_from(db, ea, types) == get_xrefs(db, "x", ea, None, types)

get_drefs_to(db, ea, types) == get_xrefs(db, "D", None, ea, types)

get_drefs_from(db, ea, types) == get_xrefs(db, "d", ea, None, types)

\* Bound: the number of entries stored under the node's tag.
MaxXrefs == 2

XrefNodes == {0, 4198400}

XrefTags == {"X", "x", "D", "d"}

XrefKeys == {4198405, 4198416, 4198432}

\* fl_CF, fl_CN
XrefTypes == {16, 17}

XrefEntries == [key : XrefKeys, value : XrefTypes]

KeyOrdered(es) == \A i \in 1..(Len(es) - 1) : es[i].key < es[i + 1].key

EaArgs == {None} \cup {Some(ea) : ea \in XrefNodes}

TypesArgs == {None} \cup {Some(c) : c \in SUBSET XrefTypes}

InitXref ==
    /\ \E node \in XrefNodes, tag \in XrefTags :
         \E es \in {x \in SeqsUpTo(XrefEntries, MaxXrefs) : KeyOrdered(x)} :
            idb = [wordsize |-> 4, xnode |-> node, xtag |-> tag, chr |-> es]
    /\ self = NoSelf
    /\ buf = <<>>
    /\ pc = "xrefs"
    /\ loc = NoLoc
    /\ out = <<>>
    /\ ret = NoRet

Returned(fn, tag, ea, types, r) ==
    /\ pc = "xrefs"
    /\ ret' = [fn |-> fn, tag |-> tag, ea |-> ea, types |-> types, r |-> r]
    /\ UNCHANGED <<idb, self, buf, pc, loc, out>>

Get_crefs_to ==
    \E ea \in EaArgs, types \in TypesArgs :
        Returned("get_crefs_to", "X", ea, types, get_crefs_to(idb, ea, types))

Get_crefs_from ==
    \E ea \in EaArgs, types \in TypesArgs :
        Returned("get_crefs_from", "x", ea, types, get_crefs_from(idb, ea, types))

Get_drefs_to ==
    \E ea \in EaArgs, types \in TypesArgs :
        Returned("get_drefs_to", "D", ea, types, get_drefs_to(idb, ea, types))

Get_drefs_from ==
    \E ea \in EaArgs, types \in TypesArgs :
        Returned("get_drefs_from", "d", ea, types, get_drefs_from(idb, ea, types))

NextXref == Get_crefs_to \/ Get_crefs_from \/ Get_drefs_to \/ Get_drefs_from

SpecXref == InitXref /\ [][NextXref]_vars

XrefQueries == {"get_crefs_to", "get_crefs_from", "get_drefs_to", "get_drefs_from"}

\* The entries stored under the node and tag of the last query.
EntriesOf(ea, tag) ==
    IF ea # None /\ idb.xnode = ea[1] /\ idb.xtag = tag THEN idb.chr ELSE <<>>

\* The Xref the documentation gives for an entry: the queried address is the
\* destination of a "to" query and the source of a "from" query.
DocumentedXref(fn, ea, entry) ==
    IF fn \in {"get_crefs_to", "get_drefs_to"}
    THEN Xref(entry.key, ea[1], entry.value)
    ELSE Xref(ea[1], entry.key, entry.value)

DocumentedXrefs(fn, ea, es) == [i \in 1..Len(es) |-> DocumentedXref(fn, ea, es[i])]

(***************************************************************************)
(* C4 as claimed: a cross-reference query signals the usage error exactly  *)
(* when no address was supplied; with an address supplied (any address,    *)
(* 0 included) there is no error and the result holds, in order, Xrefs of  *)
(* the node's entries under the tag with the supplied address as the given *)
(* endpoint and the entry's key as the other, all of them when no types    *)
(* are supplied, and is empty when the node has no entries under the tag.  *)
(***************************************************************************)
C4_UsageErrorIffNoAddress ==
    ret.fn \in XrefQueries =>
        /\ (ret.r.err = "ValueError") <=> (ret.ea = None)
        /\ ret.ea # None =>
             LET all == DocumentedXrefs(ret.fn, ret.ea, EntriesOf(ret.ea, ret.tag)) IN
             /\ ret.r.err = "none"
             /\ \E keep \in SUBSET (1..Len(all)) :
                    /\ Len(ret.r.val) = Cardinality(keep)
                    /\ \A x \in 1..Len(ret.r.val) : \E i \in keep : ret.r.val[x] = all[i]
             /\ (ret.types = None => ret.r.val = all)

(***************************************************************************)
(* C5 as claimed: a query that supplies a collection of type codes, of any *)
(* size, yields exactly the entries whose type code is a member of it, in  *)
(* enumeration order; a query that supplies none yields every entry.       *)
(***************************************************************************)
C5_TypeFilter ==
    (ret.fn \in XrefQueries /\ ret.r.err = "none") =>
        LET es == EntriesOf(ret.ea, ret.tag)
            members == IF ret.types = None THEN es
                       ELSE SelectSeq(es, LAMBDA e : e.value \in ret.types[1])
        IN ret.r.val = DocumentedXrefs(ret.fn, ret.ea, members)

\* The two fields the documentation gives a tail record after the flags.
DocumentedTailFields == <<"dd", "dd">>

TailAccess == ret.fn = "func_t" /\ HeadComplete(buf) /\ DocumentedFlags(buf) >= 32768

(***************************************************************************)
(* C11 as claimed: when the buffer holds a complete start, size and flags  *)
(* with FUNC_TAIL set, then any bytes, func_t(buf) does not raise; owner   *)
(* is start minus the dd after the flags and refqty the dd after that,     *)
(* each None when its bytes are not all in the buffer; frame, frsize,      *)
(* frregs, argsize, fpd and color are None.                                *)
(***************************************************************************)
C11_FuncTail ==
    TailAccess =>
        LET ends == FieldEnds(buf, 0, HeadFields \o DocumentedTailFields) IN
        /\ ret.r.err = "none"
        /\ ret.r.startEA = DocumentedInt(buf)
        /\ ret.r.flags = DocumentedFlags(buf)
        /\ \A k \in 1..6 : OptionalOf(ret.r)[k] = None
        /\ ret.r.owner = IF ends[4] < 0 THEN None
                         ELSE Some(ret.r.startEA - DocumentedInt(Slice(buf, ends[3])))
        /\ ret.r.refqty = IF ends[5] < 0 THEN None
                          ELSE Some(DocumentedInt(Slice(buf, ends[4])))

(***************************************************************************)
(* chunks(l, n) and pairs(l) over any input.  A generator input is the     *)
(* sequence of items it has still to produce; an indexable input (list,    *)
(* bytes) is the sequence itself.  The frame of chunks is suspended at its *)
(* yield: [kind, n, started, rest] for a generator, [kind, n, started, i]  *)
(* for an indexable input.                                                 *)
(***************************************************************************)

Min(a, b) == IF a < b THEN a ELSE b

\* l[i:j]: a slice is clipped to the sequence and never raises.
PySlice(l, i, j) == IF i >= Len(l) THEN <<>> ELSE SubSeq(l, i + 1, Min(j, Len(l)))

\* list(itertools.islice(l, n)) on a generator with rest still to produce
islice_list(rest, n) == PySlice(rest, 0, n)

\* lines 653-657: v = list(islice(l, n)); if not v: return; yield v
chunks_generator_next(f) ==
    LET v == islice_list(f.rest, f.n) IN
    IF v = <<>> THEN [f |-> f, kind |-> "stop"]
    ELSE [f |-> [f EXCEPT !.started = TRUE, !.rest = PySlice(f.rest, Len(v), Len(f.rest))],
          kind |-> "yield", val |-> v]

\* lines 659-666: resumed after the yield, i += n; then v = l[i:i+n]; yield v.
\* The slice raises no IndexError, so the except branch is never taken.
chunks_sequence_yield(l, f, i) ==
    [f |-> [f EXCEPT !.started = TRUE, !.i = i], kind |-> "yield",
     val |-> PySlice(l, i, i + f.n)]

chunks_sequence_next(l, f) ==
    chunks_sequence_yield(l, f, IF f.started THEN f.i + f.n ELSE 0)

\* One next() on chunks(l, n): line 652 chooses the branch.
chunks_any_next(l, f) ==
    IF f.kind = "generator" THEN chunks_generator_next(f) ELSE chunks_sequence_next(l, f)

\* chunks(l, n) called: nothing runs before the first next().
chunks(kind, l, n) ==
    IF kind = "generator" THEN [kind |-> kind, n |-> n, started |-> FALSE, rest |-> l]
    ELSE [kind |-> kind, n |-> n, started |-> FALSE, i |-> 0]

\* pairs(l)
pairs(kind, l) == chunks(kind, l, 2)

\* Bounds: the length of the input, the group size.
MaxItems == 3

MaxN == 2

ChunkItems == {1, 2}

\* The consumer is followed for one group more than the longest input has items.
MaxGroups == MaxItems + 1

InitChunks ==
    /\ buf \in SeqsUpTo(ChunkItems, MaxItems)
    /\ \E kind \in {"generator", "sequence"} :
          \/ \E n \in 1..MaxN : loc = [fn |-> "chunks", f |-> chunks(kind, buf, n)]
          \/ loc = [fn |-> "pairs", f |-> pairs(kind, buf)]
    /\ idb = NoDb
    /\ self = NoSelf
    /\ pc = "suspended"
    /\ out = <<>>
    /\ ret = NoRet

Resume_chunks(fn) ==
    /\ pc = "suspended"
    /\ loc.fn = fn
    /\ Len(out) < MaxGroups
    /\ LET x == chunks_any_next(buf, loc.f) IN
       /\ loc' = [loc EXCEPT !.f = x.f]
       /\ pc' = IF x.kind = "yield" THEN "suspended" ELSE "done"
       /\ out' = IF x.kind = "yield" THEN Append(out, x.val) ELSE out
    /\ UNCHANGED <<idb, self, buf, ret>>

Next_chunks == Resume_chunks("chunks")

Next_pairs == Resume_chunks("pairs")

NextChunks == Next_chunks \/ Next_pairs

SpecChunks == InitChunks /\ [][NextChunks]_vars

\* list(chunks(l, n)): the consumer keeps asking until the generator ends.
SpecChunksFair == SpecChunks /\ WF_vars(NextChunks)

\* The groups yielded so far are consecutive groups of the input: full groups,
\* then possibly a shorter last one, none empty.
GroupsSoFar ==
    /\ Concat(out) = PySlice(buf, 0, Len(Concat(out)))
    /\ \A k \in 1..Len(out) :
          /\ Len(out[k]) >= 1
          /\ Len(out[k]) <= loc.f.n
          /\ (k < Len(out) => Len(out[k]) = loc.f.n)
    /\ (Len(out) > 0 /\ Len(out[Len(out)]) < loc.f.n) => Concat(out) = buf

(***************************************************************************)
(* C12 as claimed: chunks(l, n) with n >= 1, over a finite generator or a  *)
(* finite indexable sequence, yields consecutive groups of the input, each *)
(* but the last of exactly n items, the last of 1 to n, none empty, then   *)
(* ends, the groups concatenating to the input; pairs(l) does so with      *)
(* n = 2.                                                                  *)
(***************************************************************************)
C12_Chunks ==
    /\ [](loc.fn \in {"chunks", "pairs"} =>
            /\ GroupsSoFar
            /\ (loc.fn = "pairs" => loc.f.n = 2)
            /\ (pc = "done" => Concat(out) = buf))
    /\ (loc.fn \in {"chunks", "pairs"} => <>(pc = "done"))

(***************************************************************************)
(* Struct.get_members, a generator.  Its frame holds the locals vals,      *)
(* count, offset, the number i of iterations completed and nodeid_offset,  *)
(* which is unbound (None) until an assignment to it has run.              *)
(***************************************************************************)

\* STRUCT_FLAGS.SF_FRAME
STRUCT_FLAGS_FRAME == 64

\* A number too wide for one machine integer: base + (lo | (hi << 32)).
Wide(base, lo, hi) == [base |-> base, lo |-> lo, hi |-> hi]

StructMember(nodeid) == [nodeid |-> nodeid]

\* list(unpack_dds(v))
RECURSIVE dds_list(_, _)
dds_list_step(v, x) ==
    CASE x.kind = "raise" -> [err |-> x.err]
      [] x.kind = "stop" -> [err |-> "none", vals |-> <<>>]
      [] x.kind = "yield" -> LET rest == dds_list(v, x.g) IN
                             IF rest.err # "none" THEN rest
                             ELSE [err |-> "none", vals |-> <<x.val>> \o rest.vals]

dds_list(v, g) == dds_list_step(v, dds_next(v, g))

get_members_frame ==
    [fn |-> "get_members", started |-> FALSE, vals |-> <<>>, count |-> 0,
     offset |-> 0, i |-> 0, nodeid_offset |-> None]

members_raise(f, err) == [f |-> f, kind |-> "raise", err |-> err]

members_yield(f, step, nodeid_offset, member_nodeid) ==
    [f |-> [f EXCEPT !.started = TRUE, !.offset = f.offset + step, !.i = f.i + 1,
                     !.nodeid_offset = Some(nodeid_offset)],
     kind |-> "yield", val |-> StructMember(member_nodeid)]

\* lines 629-633: the body of the loop for 4-byte words
members_body32(db, f, member_vals) ==
    IF Len(member_vals) # 5 THEN members_raise(f, "ValueError")
    ELSE members_yield(f, 5, member_vals[1], db.nodebase + member_vals[1])

\* lines 635-642: the body of the loop for 8-byte words; line 638 reads
\* nodeid_offset, not nodeid_offsetb, on its right-hand side
members_body64(db, f, member_vals) ==
    IF Len(member_vals) # 8 THEN members_raise(f, "ValueError")
    ELSE IF f.nodeid_offset = None THEN members_raise(f, "UnboundLocalError")
    ELSE members_yield(f, 8, Wide(0, member_vals[1], f.nodeid_offset[1]),
                       Wide(db.nodebase, member_vals[1], f.nodeid_offset[1]))

\* lines 627-644: for i in range(count)
members_loop(db, f) ==
    IF f.i >= f.count THEN [f |-> [f EXCEPT !.started = TRUE], kind |-> "stop"]
    ELSE IF db.wordsize = 4
         THEN members_body32(db, f, PySlice(f.vals, f.offset, f.offset + 5))
    ELSE IF db.wordsize = 8
         THEN members_body64(db, f, PySlice(f.vals, f.offset, f.offset + 8))
    ELSE members_raise(f, "RuntimeError")

\* lines 620-626, given list(unpack_dds(v))
members_header(db, f, l) ==
    IF l.err # "none" THEN members_raise(f, l.err)
    ELSE IF Len(l.vals) < 1 THEN members_raise(f, "IndexError")
    ELSE IF And(l.vals[1], STRUCT_FLAGS_FRAME) = 0 THEN members_raise(f, "RuntimeError")
    ELSE IF Len(l.vals) < 2 THEN members_raise(f, "IndexError")
    ELSE members_loop(db, [f EXCEPT !.vals = l.vals, !.count = l.vals[2], !.offset = 2])

\* line 619: v = self.netnode.supval(tag='M', index=0)
members_enter(db, me, f, sv) ==
    IF sv.err # "none" THEN members_raise(f, sv.err)
    ELSE members_header(db, f, dds_list(sv.val, dds_frame))

\* One next() on Struct.get_members().
get_members_next(db, me, f) ==
    IF f.started THEN members_loop(db, f)
    ELSE members_enter(db, me, f, supval(db, me.nodeid, 0, "M"))

\* Bound: the number of member groups stored, and the largest member count.
MaxMembers == 2

StructNode == 117

StructBase == 4096

MemberFlagEncodings == {<<64>>, <<65>>, <<0>>}

OffsetEncodings == {<<8>>, <<129, 0>>}

\* the values of one member: 5 for 4-byte words, 8 for 8-byte words
MemberEncodings(ws) ==
    IF ws = 4 THEN {o \o <<1, 2, 3, 4>> : o \in OffsetEncodings}
    ELSE {o \o hi \o <<1, 2, 3, 4, 5, 6>> : o \in OffsetEncodings, hi \in {<<0>>, <<1>>}}

MemberArrays(ws) ==
    {fl \o <<count>> \o Concat(ms) :
        fl \in MemberFlagEncodings, count \in 0..MaxMembers,
        ms \in SeqsUpTo(MemberEncodings(ws), MaxMembers)}

InitStruct ==
    /\ \E ws \in {4, 8} :
          \/ /\ buf \in MemberArrays(ws)
             /\ idb = [wordsize |-> ws, nodebase |-> StructBase,
                       sup |-> {[nodeid |-> StructNode, tag |-> "M", index |-> 0,
                                 value |-> buf]}]
          \/ /\ buf = <<>>
             /\ idb = [wordsize |-> ws, nodebase |-> StructBase, sup |-> {}]
    /\ self = [cls |-> "Struct", nodeid |-> StructNode]
    /\ pc = "suspended"
    /\ loc = get_members_frame
    /\ out = <<>>
    /\ ret = NoRet

Next_get_members ==
    /\ pc = "suspended"
    /\ loc.fn = "get_members"
    /\ LET x == get_members_next(idb, self, loc) IN
       /\ loc' = x.f
       /\ pc' = CASE x.kind = "yield" -> "suspended"
                  [] x.kind = "stop" -> "done"
                  [] x.kind = "raise" -> "raised"
       /\ out' = IF x.kind = "yield" THEN Append(out, x.val) ELSE out
       /\ ret' = IF x.kind = "raise" THEN [fn |-> "get_members", err |-> x.err] ELSE ret
    /\ UNCHANGED <<idb, self, buf>>

NextStruct == Next_get_members

SpecStruct == InitStruct /\ [][NextStruct]_vars

\* The values per member for the word size.
GroupSize == IF idb.wordsize = 4 THEN 5 ELSE 8

\* The array is stored and holds the flags, the count and count whole groups.
MembersStored ==
    /\ loc.fn = "get_members"
    /\ idb.sup # {}
    /\ Len(DocumentedDds(buf)) >= 2 + DocumentedDds(buf)[2] * GroupSize

\* The node id the documentation gives the k-th member.
DocumentedMember(k) ==
    LET vals == DocumentedDds(buf)
        at == 2 + (k - 1) * GroupSize
    IN  IF idb.wordsize = 4 THEN StructMember(idb.nodebase + vals[at + 1])
        ELSE StructMember(Wide(idb.nodebase, vals[at + 1], vals[at + 2]))

(***************************************************************************)
(* C13 as claimed: for 4-byte and 8-byte words, get_members over a stored  *)
(* array fails (RuntimeError, nothing yielded) when the first value lacks  *)
(* SF_FRAME; otherwise it does not fail and yields, in order, one          *)
(* StructMember per member counted by the second value, 5 values per       *)
(* member for 4-byte words and 8 for 8-byte words, the k-th with node id   *)
(* nodebase + the k-th node-id offset (low and high halves combined for    *)
(* 8-byte words), and ends after the last.                                 *)
(***************************************************************************)
C13_GetMembers ==
    MembersStored =>
        IF And(DocumentedDds(buf)[1], 64) = 0
        THEN /\ out = <<>>
             /\ pc # "done"
             /\ (loc.started \/ pc = "raised") => (pc = "raised" /\ ret.err = "RuntimeError")
        ELSE /\ pc # "raised"
             /\ Len(out) <= DocumentedDds(buf)[2]
             /\ \A k \in 1..Len(out) : out[k] = DocumentedMember(k)
             /\ (pc = "done" => Len(out) = DocumentedDds(buf)[2])

(***************************************************************************)
(* C14 as claimed: on a buffer holding a complete dd encoding at the       *)
(* offset and a complete dd encoding 4 bytes after it, unpack_dq returns   *)
(* (high << 32) + low, high the dd at the offset and low the dd at         *)
(* offset + 4: a number in 0 .. 2^64 - 1, here its four 16-bit quarters    *)
(* from the most significant.                                              *)
(***************************************************************************)
C14_UnpackDq ==
    (/\ ret.fn = "unpack_dq"
     /\ CompleteDdAt(buf, ret.offset)
     /\ CompleteDdAt(buf, ret.offset + 4)) =>
        /\ ret.r.err = "none"
        /\ ret.r.val = DocumentedDd(Slice(buf, ret.offset))
                           \o DocumentedDd(Slice(buf, ret.offset + 4))
        /\ \A q \in 1..4 : ret.r.val[q] \in 0..65535

====
